---- MODULE Spec2Model ----
(***************************************************************************)
(* A model of the two gallery generators, generate_gallery.py (pipeline 1) *)
(* and generate_gallery_resnet50.py (pipeline 2).                          *)
(*                                                                         *)
(* Strings are sequences of one-character strings, so that suffix, stem,   *)
(* prefix tests, lexicographic sorting and HTML escaping are computed the  *)
(* way the code computes them.  A path is the sequence of its parts, as    *)
(* pathlib keeps it; an absolute path starts with the part "/".            *)
(* The file system is a function from the paths that exist to their kind.  *)
(* A rendered document is a sequence of tokens: the literal chunks of the  *)
(* templates (strings of several characters) and the characters of the     *)
(* embedded, user-derived text.                                            *)
(***************************************************************************)
EXTENDS Integers, Sequences, FiniteSets, TLC

VARIABLES
    pipeline,        \* 1: generate_gallery.py, 2: generate_gallery_resnet50.py
    fs,              \* the file system: path -> "file" | "dir"
    disk,            \* the text held by the file at the output path
    pc,              \* position of main(): start, rows, render, write, print, done, failed
    chinese_images,  \* build_rows: the enumerated source images
    layer_dirs,      \* build_rows (pipeline 1): names of the sub-directories of layercam/
    score_dirs,      \* build_rows (pipeline 1): names of the sub-directories of scorecam/
    hires_dirs,      \* build_rows (pipeline 1): names of the sub-directories of hirescam/
    rows,            \* build_rows: the rows built so far
    src_idx,         \* build_rows: the position of the loop in chinese_images
    html_str,        \* main: the rendered document
    stdout,          \* the lines printed
    run,             \* the number of the current run of the generator
    before,          \* the output path as it was when the current run started
    failed_at,       \* the call at which the current run failed, "none" if it has not
    written          \* the documents written by the runs that completed

vars == <<pipeline, fs, disk, pc, chinese_images, layer_dirs, score_dirs,
          hires_dirs, rows, src_idx, html_str, stdout, run, before, failed_at, written>>

-----------------------------------------------------------------------------
(* Bounds of the model.                                                    *)

\* Main specification: the number of files and directories placed under the root.
MaxEntries == 3
\* Resolver specification: the number of entries placed in the variant directory.
MaxFiles == 2
\* Enumeration specification: the number of entries placed in the source directory.
MaxNames == 3
\* The number of times the generator is run on the same file system.
MaxRuns == 2

-----------------------------------------------------------------------------
(* Characters and strings.                                                 *)

\* The printable ASCII characters in code-point order: 32 (space) to 95 ("_") and
\* 97 ("a") to 126 ("~").  The grave accent (96) is left out.
AsciiLow == <<" ", "!", "\"", "#", "$", "%", "&", "'", "(", ")", "*", "+", ",", "-", ".", "/",
              "0", "1", "2", "3", "4", "5", "6", "7", "8", "9", ":", ";", "<", "=", ">", "?",
              "@", "A", "B", "C", "D", "E", "F", "G", "H", "I", "J", "K", "L", "M", "N", "O",
              "P", "Q", "R", "S", "T", "U", "V", "W", "X", "Y", "Z", "[", "\\", "]", "^", "_">>
AsciiHigh == <<"a", "b", "c", "d", "e", "f", "g", "h", "i", "j", "k", "l", "m", "n", "o",
               "p", "q", "r", "s", "t", "u", "v", "w", "x", "y", "z", "{", "|", "}", "~">>

Chars == {AsciiLow[i] : i \in 1..Len(AsciiLow)} \cup {AsciiHigh[i] : i \in 1..Len(AsciiHigh)}

\* ord(c)
Ord == [c \in Chars |->
           IF \E i \in 1..Len(AsciiLow) : AsciiLow[i] = c
           THEN 31 + CHOOSE i \in 1..Len(AsciiLow) : AsciiLow[i] = c
           ELSE 96 + CHOOSE i \in 1..Len(AsciiHigh) : AsciiHigh[i] = c]

\* str.lower() on one character: "A".."Z" (65..90) to "a".."z" (97..122)
Lower(c) == IF Ord[c] >= 65 /\ Ord[c] <= 90 THEN AsciiHigh[Ord[c] - 64] ELSE c

\* str.lower()
LowerStr(s) == [i \in 1..Len(s) |-> Lower(s[i])]

\* str.startswith(prefix)
StartsWith(s, prefix) ==
    Len(s) >= Len(prefix) /\ SubSeq(s, 1, Len(prefix)) = prefix

\* str < str: lexicographic by code point
RECURSIVE StrLess(_, _)
StrLess(a, b) ==
    IF a = <<>> THEN b # <<>>
    ELSE IF b = <<>> THEN FALSE
    ELSE IF a[1] = b[1] THEN StrLess(Tail(a), Tail(b))
    ELSE Ord[a[1]] < Ord[b[1]]

\* sep.join(parts)
RECURSIVE Join(_, _)
Join(parts, sep) ==
    IF parts = <<>> THEN <<>>
    ELSE IF Len(parts) = 1 THEN parts[1]
    ELSE parts[1] \o <<sep>> \o Join(Tail(parts), sep)

-----------------------------------------------------------------------------
(* Names of the program.                                                   *)

RootPart == <<"/">>
ProjName == <<"p", "r", "o", "j">>
ChineseName == <<"C", "h", "i", "n", "e", "s", "e">>
LayercamName == <<"l", "a", "y", "e", "r", "c", "a", "m">>
ScorecamName == <<"s", "c", "o", "r", "e", "c", "a", "m">>
HirescamName == <<"h", "i", "r", "e", "s", "c", "a", "m">>
ResNetName == <<"1", "2", ".", "1", "7", "_", "R", "e", "s", "N", "e", "t", "5", "0">>
IndexName == <<"i", "n", "d", "e", "x", ".", "h", "t", "m", "l">>
IndexResnetName == <<"i", "n", "d", "e", "x", "_", "r", "e", "s", "n", "e", "t", "5", "0",
                     ".", "h", "t", "m", "l">>

\* Path(__file__).resolve().parent: an absolute directory
PROJECT_ROOT == <<RootPart, ProjName>>
CHINESE_DIR == Append(PROJECT_ROOT, ChineseName)
LAYERCAM_DIR == Append(PROJECT_ROOT, LayercamName)
SCORECAM_DIR == Append(PROJECT_ROOT, ScorecamName)
HIRESCAM_DIR == Append(PROJECT_ROOT, HirescamName)
BASE_DIR == Append(PROJECT_ROOT, ResNetName)

SECTIONS == <<
    <<"n", "o", "p", "r", "e", "t", "r", "a", "i", "n", "_", "s", "i", "n", "g", "l", "e", "c", "r", "o", "p">>,
    <<"n", "o", "p", "r", "e", "t", "r", "a", "i", "n", "_", "m", "u", "l", "t", "i", "c", "r", "o", "p">>,
    <<"p", "r", "e", "t", "r", "a", "i", "n", "_", "s", "i", "n", "g", "l", "e", "c", "r", "o", "p">>,
    <<"p", "r", "e", "t", "r", "a", "i", "n", "_", "m", "u", "l", "t", "i", "c", "r", "o", "p">> >>

\* OUTPUT_HTML of the pipeline
OUTPUT_HTML(p) ==
    Append(PROJECT_ROOT, IF p = 1 THEN IndexName ELSE IndexResnetName)

DotPng == <<".", "p", "n", "g">>
DotJpg == <<".", "j", "p", "g">>
DotJpeg == <<".", "j", "p", "e", "g">>
DotWebp == <<".", "w", "e", "b", "p">>

ALLOWED_EXTS == {DotPng, DotJpg, DotJpeg, DotWebp}

\* the order in which the resolvers try the extensions
EXT_ORDER == <<DotPng, DotJpg, DotJpeg, DotWebp>>

\* the suffixes of the three filename templates, in order
TEMPLATES == <<
    <<"_", "c", "a", "m">>,
    <<"_", "c", "a", "m", "_", "g", "b">>,
    <<"_", "g", "b">> >>

ReservedPrefix == <<".", "_">>

\* Python's None; a resolved path is never the empty string
None == <<>>

-----------------------------------------------------------------------------
(* pathlib.                                                                *)

\* p.name
Name(p) == p[Len(p)]

\* p.parent
Parent(p) == SubSeq(p, 1, Len(p) - 1)

\* the index of the last "." of a name, 0 if it has none (str.rfind + 1)
LastDot(name) ==
    LET dots == {i \in 1..Len(name) : name[i] = "."}
    IN  IF dots = {} THEN 0 ELSE CHOOSE i \in dots : \A j \in dots : j <= i

\* p.suffix, of the name: empty for a leading or a trailing dot
Suffix(name) ==
    LET i == LastDot(name)
    IN  IF 1 < i /\ i < Len(name) THEN SubSeq(name, i, Len(name)) ELSE <<>>

\* p.stem, of the name
Stem(name) ==
    LET i == LastDot(name)
    IN  IF 1 < i /\ i < Len(name) THEN SubSeq(name, 1, i - 1) ELSE name

\* p.relative_to(other), for a path under other
RelativeTo(p, other) == SubSeq(p, Len(other) + 1, Len(p))

\* p.as_posix()
AsPosix(p) ==
    IF p # <<>> /\ p[1] = RootPart
    THEN <<"/">> \o Join(Tail(p), "/")
    ELSE Join(p, "/")

\* p < q: pathlib compares the parts, each as a string
RECURSIVE PathLess(_, _)
PathLess(p, q) ==
    IF p = <<>> THEN q # <<>>
    ELSE IF q = <<>> THEN FALSE
    ELSE IF p[1] = q[1] THEN PathLess(Tail(p), Tail(q))
    ELSE StrLess(p[1], q[1])

\* p.exists()
Exists(p) == p \in DOMAIN fs

\* p.is_file()
IsFile(p) == p \in DOMAIN fs /\ fs[p] = "file"

\* p.is_dir()
IsDir(p) == p \in DOMAIN fs /\ fs[p] = "dir"

\* the entries p.iterdir() yields, in no particular order
IterDir(p) == {q \in DOMAIN fs : Len(q) = Len(p) + 1 /\ Parent(q) = p}

\* the orders in which iterdir() may yield the entries of a set
Orders(S) ==
    {o \in [1..Cardinality(S) -> S] : \A i, j \in 1..Cardinality(S) : o[i] = o[j] => i = j}

RECURSIVE Insert(_, _)
Insert(p, s) ==
    IF s = <<>> THEN <<p>>
    ELSE IF PathLess(p, s[1]) THEN <<p>> \o s
    ELSE <<s[1]>> \o Insert(p, Tail(s))

\* sorted(list of paths)
RECURSIVE Sorted(_)
Sorted(s) == IF s = <<>> THEN <<>> ELSE Insert(s[1], Sorted(Tail(s)))

-----------------------------------------------------------------------------
(* Source enumeration.                                                     *)

\* A bug of the filter: the suffix is compared without lower().
IsListed_case_sensitive(p) ==
    /\ IsFile(p)
    /\ Suffix(Name(p)) \in ALLOWED_EXTS
    /\ ~StartsWith(Name(p), ReservedPrefix)

\* the filter of list_images
IsListed(p) ==
    /\ IsFile(p)
    /\ LowerStr(Suffix(Name(p))) \in ALLOWED_EXTS
    /\ ~StartsWith(Name(p), ReservedPrefix)

\* A bug of list_images: the list is returned in the order of iterdir(), unsorted.
list_images_unsorted(directory, order) ==
    IF ~Exists(directory) THEN <<>> ELSE SelectSeq(order, IsListed)

\* list_images(directory), given the order in which iterdir() yields the entries
list_images(directory, order) ==
    IF ~Exists(directory) THEN <<>> ELSE Sorted(SelectSeq(order, IsListed))

\* list_dirs(directory)
list_dirs(directory) ==
    IF ~Exists(directory) THEN {}
    ELSE {Name(p) : p \in {q \in IterDir(directory) : IsDir(q)}}

\* iterdir() raises NotADirectoryError on a path that exists and is no directory
IterRaises(directory) == Exists(directory) /\ ~IsDir(directory)

-----------------------------------------------------------------------------
(* Variant resolution.                                                     *)

\* roots of pick_method_images and pick_single_image
Roots(base, method) ==
    [k \in 1..Len(TEMPLATES) |-> base \o <<"_">> \o method \o TEMPLATES[k]]

\* the inner loop over the extensions: the first candidate that exists
RECURSIVE FirstExisting(_, _, _)
FirstExisting(dir_path, root, exts) ==
    IF exts = <<>> THEN None
    ELSE LET candidate == Append(dir_path, root \o exts[1])
         IN  IF Exists(candidate)
             THEN AsPosix(RelativeTo(candidate, PROJECT_ROOT))
             ELSE FirstExisting(dir_path, root, Tail(exts))

\* A bug of pick_method_images: the templates after the first one found are
\* not looked up, as in the single-result resolver.
pick_method_images_stops(dir_path, base, method) ==
    IF ~Exists(dir_path) THEN <<None, None, None>>
    ELSE [k \in 1..Len(TEMPLATES) |->
             IF \E j \in 1..(k - 1) :
                   FirstExisting(dir_path, Roots(base, method)[j], EXT_ORDER) # None
             THEN None
             ELSE FirstExisting(dir_path, Roots(base, method)[k], EXT_ORDER)]

\* pick_method_images(dir_path, base, method)
pick_method_images(dir_path, base, method) ==
    IF ~Exists(dir_path) THEN <<None, None, None>>
    ELSE [k \in 1..Len(TEMPLATES) |->
             FirstExisting(dir_path, Roots(base, method)[k], EXT_ORDER)]

\* the outer loop of pick_single_image: return at the first candidate that exists
RECURSIVE FirstOfRoots(_, _)
FirstOfRoots(dir_path, roots) ==
    IF roots = <<>> THEN None
    ELSE LET chosen == FirstExisting(dir_path, roots[1], EXT_ORDER)
         IN  IF chosen # None THEN chosen ELSE FirstOfRoots(dir_path, Tail(roots))

\* A bug of pick_single_image: the loops are nested the other way round, the
\* extensions outside and the templates inside.
pick_single_image_by_extension(dir_path, base, method) ==
    LET hits == {h \in (1..Len(EXT_ORDER)) \X (1..Len(TEMPLATES)) :
                    Exists(Append(dir_path, Roots(base, method)[h[2]] \o EXT_ORDER[h[1]]))}
        first == CHOOSE h \in hits :
                    \A g \in hits : h[1] < g[1] \/ (h[1] = g[1] /\ h[2] <= g[2])
    IN  IF ~Exists(dir_path) \/ hits = {} THEN None
        ELSE AsPosix(RelativeTo(
                 Append(dir_path, Roots(base, method)[first[2]] \o EXT_ORDER[first[1]]),
                 PROJECT_ROOT))

\* pick_single_image(dir_path, base, method)
pick_single_image(dir_path, base, method) ==
    IF ~Exists(dir_path) THEN None
    ELSE FirstOfRoots(dir_path, Roots(base, method))

-----------------------------------------------------------------------------
(* Row building.                                                           *)

\* the body of the loop of build_rows, pipeline 1
BuildRow1(src) ==
    LET base == Stem(Name(src))
    IN  [base      |-> base,
         chinese   |-> AsPosix(RelativeTo(src, PROJECT_ROOT)),
         layercam3 |-> IF base \in layer_dirs
                       THEN pick_method_images(Append(LAYERCAM_DIR, base), base, LayercamName)
                       ELSE <<None, None, None>>,
         hirescam3 |-> IF base \in hires_dirs
                       THEN pick_method_images(Append(HIRESCAM_DIR, base), base, HirescamName)
                       ELSE <<None, None, None>>,
         scorecam3 |-> IF base \in score_dirs
                       THEN pick_method_images(Append(SCORECAM_DIR, base), base, ScorecamName)
                       ELSE <<None, None, None>>]

\* the directory BASE_DIR / section / method / base
SectionDir(section, method, base) == BASE_DIR \o <<section, method, base>>

\* the body of the loop of build_rows, pipeline 2
BuildRow2(src) ==
    LET base == Stem(Name(src))
    IN  [base     |-> base,
         chinese  |-> AsPosix(RelativeTo(src, PROJECT_ROOT)),
         sections |-> [s \in 1..Len(SECTIONS) |->
                          <<SECTIONS[s],
                            pick_single_image(SectionDir(SECTIONS[s], LayercamName, base),
                                              base, LayercamName),
                            pick_single_image(SectionDir(SECTIONS[s], ScorecamName, base),
                                              base, ScorecamName)>>]]

-----------------------------------------------------------------------------
(* Table rendering.                                                        *)

\* str.replace(c, r) for a character c
RECURSIVE Replace(_, _, _)
Replace(s, c, r) ==
    IF s = <<>> THEN <<>>
    ELSE (IF s[1] = c THEN r ELSE <<s[1]>>) \o Replace(Tail(s), c, r)

\* A bug of the escaping: html.escape(s, quote=False), which leaves the quotes.
Escape_without_quotes(s) ==
    Replace(Replace(Replace(s,
        "&", <<"&", "a", "m", "p", ";">>),
        "<", <<"&", "l", "t", ";">>),
        ">", <<"&", "g", "t", ";">>)

\* html.escape(s), quote=True: "&" first, then "<", ">", the double and the single quote
Escape(s) ==
    Replace(Replace(Replace(Replace(Replace(s,
        "&", <<"&", "a", "m", "p", ";">>),
        "<", <<"&", "l", "t", ";">>),
        ">", <<"&", "g", "t", ";">>),
        "\"", <<"&", "q", "u", "o", "t", ";">>),
        "'", <<"&", "#", "x", "2", "7", ";">>)

Digits == <<"0", "1", "2", "3", "4", "5", "6", "7", "8", "9">>

\* str(n) for n >= 0, as in {len(rows)}
RECURSIVE DecStr(_)
DecStr(n) ==
    IF n < 10 THEN <<Digits[n + 1]>>
    ELSE DecStr(n \div 10) \o <<Digits[(n % 10) + 1]>>

\* sep.join(parts) for parts that are token sequences and a separator token
RECURSIVE JoinTokens(_, _)
JoinTokens(parts, sep) ==
    IF parts = <<>> THEN <<>>
    ELSE IF Len(parts) = 1 THEN parts[1]
    ELSE parts[1] \o <<sep>> \o JoinTokens(Tail(parts), sep)

\* the concatenation of a sequence of token sequences: ''.join(parts)
RECURSIVE Concat(_)
Concat(parts) == IF parts = <<>> THEN <<>> ELSE parts[1] \o Concat(Tail(parts))

\* The literal chunks of the templates.
TR == "<tr>"
TR_END == "</tr>"
TH == "<th>"
TH2 == "<th colspan=\"2\">"
TH_END == "</th>"
TD == "<td>"
TD_END == "</td>"
TBODY == "<tbody>"
NL == "\n"
TITLE_DIV == "<div class=\"row-title\">"
DIV_END == "</div>"
IMG_SRC == "<img class=\"thumb\" src=\""
ALT == "\" alt=\""
IMG_END == "\">"

\* the header labels of pipeline 1, in the order of the template
HEADER1 == <<"Source (Chinese)",
             "LayerCAM 1", "LayerCAM 2", "LayerCAM 3",
             "HiresCAM 1", "HiresCAM 2", "HiresCAM 3",
             "ScoreCAM 1", "ScoreCAM 2", "ScoreCAM 3">>

\* head of render_html, pipeline 1
Head1(rs) ==
    <<"<!doctype html><html lang=\"en\"><head><title>Pattern Viz Grid</title><style>",
      "css 1",
      "</style></head><body><h1>Pattern Viz Grid</h1><div class=\"meta\">Column 1: Chinese source. Then LayerCAM images. Then ScoreCAM images. Total rows: ">>
    \o DecStr(Len(rs))
    \o <<DIV_END, "<table>", "<thead>", TR>>
    \o Concat([k \in 1..Len(HEADER1) |-> <<TH, HEADER1[k], TH_END>>])
    \o <<TR_END, "</thead>", TBODY, NL>>

\* the source cell of a row, pipeline 1 and pipeline 2
SrcCell(row) ==
    LET base == Escape(row.base)
    IN  <<TD, TITLE_DIV>> \o base \o <<DIV_END, IMG_SRC>> \o Escape(row.chinese)
        \o <<ALT>> \o base \o <<IMG_END, TD_END>>

\* a method cell of pipeline 1: the image p, or the empty placeholder
MethodCell1(row, p, label) ==
    IF p # None
    THEN <<TD, TITLE_DIV, DIV_END, IMG_SRC>> \o Escape(p) \o <<ALT>> \o Escape(row.base)
         \o <<label, IMG_END, TD_END>>
    ELSE <<TD, TITLE_DIV, DIV_END, TD_END>>

\* A bug of the body rows: the ScoreCAM cells before the HiresCAM cells.
Cells1_score_before_hires(row) ==
    <<SrcCell(row)>>
    \o [k \in 1..3 |-> MethodCell1(row, row.layercam3[k], " LayerCAM")]
    \o [k \in 1..3 |-> MethodCell1(row, row.scorecam3[k], " ScoreCAM")]
    \o [k \in 1..3 |-> MethodCell1(row, row.hirescam3[k], " HiresCAM")]

\* cells of one row, pipeline 1: source, LayerCAM x3, HiresCAM x3, ScoreCAM x3
Cells1(row) ==
    <<SrcCell(row)>>
    \o [k \in 1..3 |-> MethodCell1(row, row.layercam3[k], " LayerCAM")]
    \o [k \in 1..3 |-> MethodCell1(row, row.hirescam3[k], " HiresCAM")]
    \o [k \in 1..3 |-> MethodCell1(row, row.scorecam3[k], " ScoreCAM")]

\* row_html = "<tr>\n" + "\n".join(cells) + "\n</tr>"
RowHtml(cells) == <<TR, NL>> \o JoinTokens(cells, NL) \o <<NL, TR_END>>

Tail_html == <<NL, "</tbody>", "</table>", "</body></html>", NL>>

\* render_html(rows), pipeline 1
render_html1(rs) ==
    Head1(rs)
    \o JoinTokens([i \in 1..Len(rs) |-> RowHtml(Cells1(rs[i]))], NL)
    \o Tail_html

\* the section names the header of pipeline 2 reads from the first row
HeaderSections(rs) ==
    IF rs # <<>> THEN [s \in 1..Len(rs[1].sections) |-> rs[1].sections[s][1]] ELSE <<>>

\* head of render_html, pipeline 2
Head2(rs) ==
    <<"<!doctype html><html lang=\"en\"><head><title>Pattern Viz Grid (ResNet50)</title><style>",
      "css 2",
      "</style></head><body><h1>Pattern Viz Grid (ResNet50)</h1><div class=\"meta\">Source column: Chinese image. Then 4 sections (nopretrain_singlecrop, nopretrain_multicrop, pretrain_singlecrop, pretrain_multicrop), each with two columns: LayerCAM and ScoreCAM. Total rows: ">>
    \o DecStr(Len(rs))
    \o <<DIV_END, "<table>", "<thead>", TR, TH, "Source (Chinese)", TH_END>>
    \o (IF rs # <<>>
        THEN Concat([s \in 1..Len(HeaderSections(rs)) |->
                        <<TH2>> \o Escape(HeaderSections(rs)[s]) \o <<TH_END>>])
        ELSE <<>>)
    \o <<TR_END, TR, TH, TH_END>>
    \o Concat([s \in 1..Len(HeaderSections(rs)) |->
                  <<TH, "LayerCAM", TH_END, TH, "ScoreCAM", TH_END>>])
    \o <<TR_END, "</thead>", TBODY, NL>>

\* A bug of the method cell: an absent image gets no cell at all.
MethodCell2_no_empty_cell(row, section, p, label) ==
    IF p # None
    THEN <<TD, IMG_SRC>> \o Escape(p) \o <<ALT>> \o Escape(row.base) \o <<" ">>
         \o Escape(section) \o <<label, IMG_END, TD_END>>
    ELSE <<>>

\* a method cell of pipeline 2: the image p, or the empty cell
MethodCell2(row, section, p, label) ==
    IF p # None
    THEN <<TD, IMG_SRC>> \o Escape(p) \o <<ALT>> \o Escape(row.base) \o <<" ">>
         \o Escape(section) \o <<label, IMG_END, TD_END>>
    ELSE <<TD, TD_END>>

\* cells of one row, pipeline 2: source, then LayerCAM and ScoreCAM of each section
Cells2(row) ==
    <<SrcCell(row)>>
    \o Concat([s \in 1..Len(row.sections) |->
                  <<MethodCell2(row, row.sections[s][1], row.sections[s][2], " LayerCAM"),
                    MethodCell2(row, row.sections[s][1], row.sections[s][3], " ScoreCAM")>>])

\* render_html(rows), pipeline 2
render_html2(rs) ==
    Head2(rs)
    \o JoinTokens([i \in 1..Len(rs) |-> RowHtml(Cells2(rs[i]))], NL)
    \o Tail_html

\* render_html of the pipeline
render_html(p, rs) == IF p = 1 THEN render_html1(rs) ELSE render_html2(rs)

-----------------------------------------------------------------------------
(* The runs of main().                                                     *)

OutPath == OUTPUT_HTML(pipeline)

\* the output path as it is now: its kind and the text it holds
OutputNow ==
    [kind |-> IF Exists(OutPath) THEN fs[OutPath] ELSE "absent", text |-> disk]

\* the source image the loop of build_rows is at
NextSrc == chinese_images[src_idx]

\* whether the body of the loop of build_rows reads the file system for src
RowReadsDisk(src) ==
    \/ pipeline = 2
    \/ Stem(Name(src)) \in (layer_dirs \cup score_dirs \cup hires_dirs)

\* A bug of build_rows: a source image none of whose variants resolved gets no row.
AppendRow_drops_bare(rs, src) ==
    LET row == IF pipeline = 1 THEN BuildRow1(src) ELSE BuildRow2(src)
        bare == IF pipeline = 1
                THEN /\ row.layercam3 = <<None, None, None>>
                     /\ row.hirescam3 = <<None, None, None>>
                     /\ row.scorecam3 = <<None, None, None>>
                ELSE \A s \in 1..Len(row.sections) :
                        row.sections[s][2] = None /\ row.sections[s][3] = None
    IN  IF bare THEN rs ELSE Append(rs, row)

\* the body of the loop of build_rows: rows.append({...})
AppendRow(rs, src) ==
    Append(rs, IF pipeline = 1 THEN BuildRow1(src) ELSE BuildRow2(src))

\* An exception propagates out of main(): the process ends, its locals with it.
Abort(where) ==
    /\ pc' = "failed"
    /\ failed_at' = where
    /\ chinese_images' = <<>>
    /\ layer_dirs' = {}
    /\ score_dirs' = {}
    /\ hires_dirs' = {}
    /\ rows' = <<>>
    /\ src_idx' = 0
    /\ html_str' = <<>>
    /\ UNCHANGED <<pipeline, stdout, run, before, written>>

\* build_rows, up to its loop: list_images and, in pipeline 1, the three list_dirs.
\* iterdir() on a path that is no directory raises.
Enumerate ==
    /\ pc = "start"
    /\ IF IterRaises(CHINESE_DIR)
       THEN Abort("list_images") /\ UNCHANGED <<fs, disk>>
       ELSE IF /\ pipeline = 1
               /\ \/ IterRaises(LAYERCAM_DIR)
                  \/ IterRaises(SCORECAM_DIR)
                  \/ IterRaises(HIRESCAM_DIR)
       THEN Abort("list_dirs") /\ UNCHANGED <<fs, disk>>
       ELSE /\ \E order \in Orders(IterDir(CHINESE_DIR)) :
                   chinese_images' = list_images(CHINESE_DIR, order)
            /\ layer_dirs' = IF pipeline = 1 THEN list_dirs(LAYERCAM_DIR) ELSE {}
            /\ score_dirs' = IF pipeline = 1 THEN list_dirs(SCORECAM_DIR) ELSE {}
            /\ hires_dirs' = IF pipeline = 1 THEN list_dirs(HIRESCAM_DIR) ELSE {}
            /\ rows' = <<>>
            /\ src_idx' = 1
            /\ pc' = "rows"
            /\ UNCHANGED <<pipeline, fs, disk, html_str, stdout, run, before,
                           failed_at, written>>

\* build_rows: one iteration of the loop over the source images
BuildRow ==
    /\ pc = "rows"
    /\ src_idx <= Len(chinese_images)
    /\ rows' = AppendRow(rows, NextSrc)
    /\ src_idx' = src_idx + 1
    /\ UNCHANGED <<pipeline, fs, disk, pc, chinese_images, layer_dirs, score_dirs,
                   hires_dirs, html_str, stdout, run, before, failed_at, written>>

\* main: build_rows has returned; html_str = render_html(rows)
Render ==
    /\ pc = "rows"
    /\ src_idx > Len(chinese_images)
    /\ html_str' = render_html(pipeline, rows)
    /\ pc' = "write"
    /\ UNCHANGED <<pipeline, fs, disk, chinese_images, layer_dirs, score_dirs,
                   hires_dirs, rows, src_idx, stdout, run, before, failed_at, written>>

\* An operating-system error (permission, device) at a read of the file system:
\* iterdir(), exists() and is_file() let it propagate.
ReadFailure ==
    /\ \/ pc = "start"
       \/ pc = "rows" /\ src_idx <= Len(chinese_images) /\ RowReadsDisk(NextSrc)
    /\ Abort(IF pc = "start" THEN "read in enumeration" ELSE "read in resolution")
    /\ UNCHANGED <<fs, disk>>

\* OUTPUT_HTML.write_text(html_str): open for writing, which creates or truncates
\* the file, then write.  Opening a directory raises IsADirectoryError.
WriteText ==
    /\ pc = "write"
    /\ IF IsDir(OutPath)
       THEN Abort("open of a directory") /\ UNCHANGED <<fs, disk>>
       ELSE /\ fs' = [p \in DOMAIN fs \cup {OutPath} |->
                         IF p = OutPath THEN "file" ELSE fs[p]]
            /\ disk' = html_str
            /\ written' = Append(written, html_str)
            /\ pc' = "print"
            /\ UNCHANGED <<pipeline, chinese_images, layer_dirs, score_dirs, hires_dirs,
                           rows, src_idx, html_str, stdout, run, before, failed_at>>

\* the lengths at which a failing write may leave the text of the file
Cuts(doc) == {0, Len(doc) \div 2, Len(doc) - 1}

\* An operating-system error in write_text: at open(), which leaves the path as
\* it was, or after open() has created or truncated the file, which leaves the
\* part of the text written so far.
WriteFailure ==
    /\ pc = "write"
    /\ ~IsDir(OutPath)
    /\ \E k \in {-1} \cup Cuts(html_str) :
          IF k = -1
          THEN Abort("open") /\ UNCHANGED <<fs, disk>>
          ELSE /\ fs' = [p \in DOMAIN fs \cup {OutPath} |->
                            IF p = OutPath THEN "file" ELSE fs[p]]
               /\ disk' = SubSeq(html_str, 1, k)
               /\ Abort("write")

\* print(f"Wrote {OUTPUT_HTML}")
PrintWrote ==
    /\ pc = "print"
    /\ stdout' = Append(stdout, <<"Wrote ">> \o AsPosix(OutPath))
    /\ pc' = "done"
    /\ UNCHANGED <<pipeline, fs, disk, chinese_images, layer_dirs, score_dirs,
                   hires_dirs, rows, src_idx, html_str, run, before, failed_at, written>>

\* The generator is run again, on the file system the completed run left.
RunAgain ==
    /\ pc = "done"
    /\ run < MaxRuns
    /\ run' = run + 1
    /\ pc' = "start"
    /\ failed_at' = "none"
    /\ before' = OutputNow
    /\ stdout' = <<>>
    /\ chinese_images' = <<>>
    /\ layer_dirs' = {}
    /\ score_dirs' = {}
    /\ hires_dirs' = {}
    /\ rows' = <<>>
    /\ src_idx' = 0
    /\ html_str' = <<>>
    /\ UNCHANGED <<pipeline, fs, disk, written>>

Next ==
    \/ Enumerate
    \/ BuildRow
    \/ Render
    \/ ReadFailure
    \/ WriteText
    \/ WriteFailure
    \/ PrintWrote
    \/ RunAgain

-----------------------------------------------------------------------------
(* The file systems the runs start from.                                   *)

\* the sets of at most k elements of S
RECURSIVE UpTo(_, _)
UpTo(S, k) ==
    IF k = 0 THEN {{}}
    ELSE LET smaller == UpTo(S, k - 1)
         IN  smaller \cup {E \cup {x} : E \in smaller, x \in S}

File(path) == [path |-> path, kind |-> "file"]
Dir(path) == [path |-> path, kind |-> "dir"]

\* the directories above an entry, below the project root
Above(path) ==
    {SubSeq(path, 1, n) : n \in (Len(PROJECT_ROOT) + 1)..(Len(path) - 1)}

\* no path twice, and nothing below a file
Consistent(E) ==
    \A e1, e2 \in E :
        /\ e1.path = e2.path => e1 = e2
        /\ e1.kind = "file" => e1.path \notin Above(e2.path)

\* the file system holding the entries of E and the directories above them
FsOf(E) ==
    LET paths == {e.path : e \in E}
        dirs == UNION {Above(e.path) : e \in E}
    IN  [p \in paths \cup dirs |->
            IF p \in dirs THEN "dir" ELSE (CHOOSE e \in E : e.path = p).kind]

FileSystems(pool, k) == {FsOf(E) : E \in {X \in UpTo(pool, k) : Consistent(X)}}

\* file names
A_png == <<"A", ".", "p", "n", "g">>
A_JPG == <<"A", ".", "J", "P", "G">>
BaseA == <<"A">>
\* a stem made of the five characters html.escape replaces
BaseQ == <<"<", "&", "\"", "'", ">">>
Q_webp == BaseQ \o DotWebp
Hidden_A_png == <<".", "_", "A", ".", "p", "n", "g">>
C_png == <<"C", ".", "p", "n", "g">>
N_txt == <<"n", ".", "t", "x", "t">>
OnlyDot_png == <<".", "p", "n", "g">>
B_Jpeg == <<"B", ".", "J", "p", "e", "g">>
D_png_dot == <<"D", ".", "p", "n", "g", ".">>
SubName == <<"s", "u", "b">>
E_png == <<"E", ".", "p", "n", "g">>

\* the candidate {base}_{method}{template k}{ext} in a directory
Cand(dir, base, method, k, ext) == Append(dir, Roots(base, method)[k] \o ext)

\* entries of the source directory
SourcePool ==
    { File(Append(CHINESE_DIR, A_png)),
      File(Append(CHINESE_DIR, A_JPG)),
      File(Append(CHINESE_DIR, Q_webp)),
      File(Append(CHINESE_DIR, Hidden_A_png)),
      Dir(Append(CHINESE_DIR, C_png)),
      File(Append(CHINESE_DIR, N_txt)),
      Dir(CHINESE_DIR),
      File(CHINESE_DIR) }

\* entries at the output path: a document of an earlier run, or a directory
OutputPool(p) == { File(OUTPUT_HTML(p)), Dir(OUTPUT_HTML(p)) }

\* entries of the method directories of pipeline 1
VariantPool1 ==
    LET la == Append(LAYERCAM_DIR, BaseA)
        sa == Append(SCORECAM_DIR, BaseA)
        ha == Append(HIRESCAM_DIR, BaseA)
        lq == Append(LAYERCAM_DIR, BaseQ)
    IN  { File(Cand(la, BaseA, LayercamName, 1, DotJpg)),
          File(Cand(la, BaseA, LayercamName, 1, DotPng)),
          File(Cand(la, BaseA, LayercamName, 3, DotWebp)),
          Dir(Cand(sa, BaseA, ScorecamName, 2, DotPng)),
          File(Cand(ha, BaseA, HirescamName, 1, DotJpeg)),
          File(Cand(lq, BaseQ, LayercamName, 1, DotPng)),
          File(Cand(sa, BaseA, LayercamName, 1, DotPng)),
          File(ha),
          Dir(sa),
          File(LAYERCAM_DIR) }

\* entries of the section directories of pipeline 2
VariantPool2 ==
    LET la1 == SectionDir(SECTIONS[1], LayercamName, BaseA)
        sa1 == SectionDir(SECTIONS[1], ScorecamName, BaseA)
        sa2 == SectionDir(SECTIONS[2], ScorecamName, BaseA)
        lq2 == SectionDir(SECTIONS[2], LayercamName, BaseQ)
        la3 == SectionDir(SECTIONS[3], LayercamName, BaseA)
        sa4 == SectionDir(SECTIONS[4], ScorecamName, BaseA)
    IN  { File(Cand(la1, BaseA, LayercamName, 1, DotJpg)),
          File(Cand(la1, BaseA, LayercamName, 3, DotPng)),
          Dir(Cand(sa1, BaseA, ScorecamName, 2, DotWebp)),
          File(Cand(sa4, BaseA, ScorecamName, 3, DotJpeg)),
          File(Cand(lq2, BaseQ, LayercamName, 1, DotPng)),
          File(Cand(la1, BaseA, ScorecamName, 1, DotPng)),
          File(la3),
          Dir(sa2),
          File(BASE_DIR) }

Pool(p) ==
    SourcePool \cup OutputPool(p) \cup (IF p = 1 THEN VariantPool1 ELSE VariantPool2)

\* the text of a document left at the output path by an earlier run
STALE == <<"<!doctype html>", "stale">>

\* main() is about to run for the first time on the file system f.
StartOn(p, f) ==
    /\ pipeline = p
    /\ fs = f
    /\ disk = IF OUTPUT_HTML(p) \in DOMAIN f /\ f[OUTPUT_HTML(p)] = "file"
              THEN STALE ELSE <<>>
    /\ pc = "start"
    /\ chinese_images = <<>>
    /\ layer_dirs = {}
    /\ score_dirs = {}
    /\ hires_dirs = {}
    /\ rows = <<>>
    /\ src_idx = 0
    /\ html_str = <<>>
    /\ stdout = <<>>
    /\ run = 1
    /\ before = [kind |-> IF OUTPUT_HTML(p) \in DOMAIN f THEN f[OUTPUT_HTML(p)]
                          ELSE "absent",
                 text |-> IF OUTPUT_HTML(p) \in DOMAIN f /\ f[OUTPUT_HTML(p)] = "file"
                          THEN STALE ELSE <<>>]
    /\ failed_at = "none"
    /\ written = <<>>

Init == \E p \in {1, 2} : \E f \in FileSystems(Pool(p), MaxEntries) : StartOn(p, f)

Spec == Init /\ [][Next]_vars

-----------------------------------------------------------------------------
(* The resolvers on every small content of one variant directory.          *)

\* the directory the first lookup of the row of A.png reads
PickDir(p) ==
    IF p = 1 THEN Append(LAYERCAM_DIR, BaseA)
    ELSE SectionDir(SECTIONS[1], LayercamName, BaseA)

\* entries of that directory: every candidate as a file, two as directories, a
\* file of another method, and the directory itself, empty or a file
PickPool(p) ==
    {File(Cand(PickDir(p), BaseA, LayercamName, k, EXT_ORDER[e])) :
        k \in 1..Len(TEMPLATES), e \in 1..Len(EXT_ORDER)}
    \cup { Dir(Cand(PickDir(p), BaseA, LayercamName, 1, DotJpg)),
           Dir(Cand(PickDir(p), BaseA, LayercamName, 2, DotPng)),
           File(Cand(PickDir(p), BaseA, ScorecamName, 1, DotPng)),
           Dir(PickDir(p)),
           File(PickDir(p)) }

InitPick ==
    \E p \in {1, 2} :
        \E E \in UpTo(PickPool(p), MaxFiles) :
            /\ Consistent(E)
            /\ StartOn(p, FsOf(E \cup {File(Append(CHINESE_DIR, A_png))}))

SpecPick == InitPick /\ [][Next]_vars

-----------------------------------------------------------------------------
(* The enumeration on every small content of the source directory.         *)

ListPool ==
    { File(Append(CHINESE_DIR, A_png)),
      Dir(Append(CHINESE_DIR, A_png)),
      File(Append(CHINESE_DIR, A_JPG)),
      File(Append(CHINESE_DIR, B_Jpeg)),
      File(Append(CHINESE_DIR, Q_webp)),
      File(Append(CHINESE_DIR, Hidden_A_png)),
      File(Append(CHINESE_DIR, N_txt)),
      File(Append(CHINESE_DIR, OnlyDot_png)),
      File(Append(CHINESE_DIR, D_png_dot)),
      File(CHINESE_DIR \o <<SubName, E_png>>),
      Dir(CHINESE_DIR),
      File(CHINESE_DIR) }

InitList ==
    \E p \in {1, 2} : \E f \in FileSystems(ListPool, MaxNames) : StartOn(p, f)

SpecList == InitList /\ [][Next]_vars

-----------------------------------------------------------------------------
(* Reading a rendered document.                                            *)

\* the positions of a token in a document
Positions(doc, t) == {i \in 1..Len(doc) : doc[i] = t}

\* the elements of a set of numbers in ascending order
RECURSIVE Ascending(_)
Ascending(S) ==
    IF S = {} THEN <<>>
    ELSE LET m == CHOOSE x \in S : \A y \in S : x <= y
         IN  <<m>> \o Ascending(S \ {m})

\* the first position after i of one of the tokens of ts, Len(doc) + 1 if none
NextOf(doc, i, ts) ==
    LET later == {j \in (i + 1)..Len(doc) : doc[j] \in ts}
    IN  IF later = {} THEN Len(doc) + 1 ELSE CHOOSE j \in later : \A k \in later : j <= k

\* what stands between each opening token and the closing token that follows it
Segments(doc, opens, close) ==
    LET starts == Ascending({i \in 1..Len(doc) : doc[i] \in opens})
    IN  [n \in 1..Len(starts) |->
            SubSeq(doc, starts[n] + 1, NextOf(doc, starts[n], {close}) - 1)]

\* the document up to <tbody>, and after it
HeadOf(doc) == SubSeq(doc, 1, NextOf(doc, 0, {TBODY}) - 1)
BodyOf(doc) == SubSeq(doc, NextOf(doc, 0, {TBODY}) + 1, Len(doc))

\* the rows of the header and of the body, and the cells of a row
HeaderRows(doc) == Segments(HeadOf(doc), {TR}, TR_END)
BodyRows(doc) == Segments(BodyOf(doc), {TR}, TR_END)
CellsOf(row) == Segments(row, {TD}, TD_END)

\* the values of the src and of the alt attributes in a piece of a document
SrcAttrs(piece) == Segments(piece, {IMG_SRC}, ALT)
AltAttrs(piece) == Segments(piece, {ALT}, IMG_END)

\* the character references html.escape produces
Entities ==
    { [body |-> <<"a", "m", "p", ";">>, char |-> "&"],
      [body |-> <<"l", "t", ";">>, char |-> "<"],
      [body |-> <<"g", "t", ";">>, char |-> ">"],
      [body |-> <<"q", "u", "o", "t", ";">>, char |-> "\""],
      [body |-> <<"#", "x", "2", "7", ";">>, char |-> "'"] }

\* the text a reader of the document sees for an escaped text
RECURSIVE Unescape(_)
Unescape(s) ==
    IF s = <<>> THEN <<>>
    ELSE IF s[1] = "&" /\ \E e \in Entities : StartsWith(Tail(s), e.body)
    THEN LET e == CHOOSE e \in Entities : StartsWith(Tail(s), e.body)
         IN  <<e.char>> \o Unescape(SubSeq(s, Len(e.body) + 2, Len(s)))
    ELSE <<s[1]>> \o Unescape(Tail(s))

\* the parts of a reference, split at "/"
RECURSIVE SplitRef(_)
SplitRef(s) ==
    LET cut == NextOf(s, 0, {"/"})
    IN  IF cut > Len(s) THEN <<s>>
        ELSE <<SubSeq(s, 1, cut - 1)>> \o SplitRef(SubSeq(s, cut + 1, Len(s)))

\* build_rows has returned and html_str holds the document rendered from rows
Rendered == pc \in {"write", "print", "done"}

-----------------------------------------------------------------------------
(* What the claims expect, stated on the file system.                      *)

\* the name ends with the extension ext, compared case-insensitively, after a
\* non-empty stem
HasExt(name, ext) ==
    /\ Len(name) > Len(ext)
    /\ LowerStr(SubSeq(name, Len(name) - Len(ext) + 1, Len(name))) = ext

\* the entries of the source directory the enumeration must list
Eligible ==
    {p \in DOMAIN fs :
        /\ Len(p) = Len(CHINESE_DIR) + 1
        /\ SubSeq(p, 1, Len(CHINESE_DIR)) = CHINESE_DIR
        /\ fs[p] = "file"
        /\ \E ext \in {DotPng, DotJpg, DotJpeg, DotWebp} : HasExt(p[Len(p)], ext)
        /\ ~(p[Len(p)][1] = "." /\ p[Len(p)][2] = "_")}

\* the BaseKey of an eligible source name: the name without its extension
BaseKey(name) ==
    LET ext == CHOOSE ext \in {DotPng, DotJpg, DotJpeg, DotWebp} : HasExt(name, ext)
    IN  SubSeq(name, 1, Len(name) - Len(ext))

\* the reference of the file {base}_{method}{template k}{ext e} under the
\* directory whose parts below the root are sub
RefOf(sub, base, method, k, e) ==
    Join(sub \o <<base \o <<"_">> \o method \o TEMPLATES[k] \o EXT_ORDER[e]>>, "/")

\* the extensions, by their rank, for which that file exists
Present(sub, base, method, k) ==
    {e \in 1..4 :
        (PROJECT_ROOT \o sub
            \o <<base \o <<"_">> \o method \o TEMPLATES[k] \o EXT_ORDER[e]>>) \in DOMAIN fs}

Least(S) == CHOOSE x \in S : \A y \in S : x <= y

\* slot k of a method: the existing file of the least extension rank, or absent
ExpectedSlot(sub, base, method, k) ==
    IF Present(sub, base, method, k) = {} THEN None
    ELSE RefOf(sub, base, method, k, Least(Present(sub, base, method, k)))

\* the single result: the slot of the least template that has one, or absent
ExpectedSingle(sub, base, method) ==
    LET found == {k \in 1..3 : Present(sub, base, method, k) # {}}
    IN  IF found = {} THEN None ELSE ExpectedSlot(sub, base, method, Least(found))

-----------------------------------------------------------------------------
(* Claims.                                                                 *)

\* C1: pipeline 1 resolves, in an existing candidate directory, exactly three
\* slots in the order cam, cam_gb, gb; slot k is the first existing path
\* {base}_{method}{template k}{ext} with ext tried as .png, .jpg, .jpeg, .webp,
\* and is absent iff none of the four exists; a slot depends only on the files
\* of its own template.
C1_ThreeSlots ==
    (pipeline = 1 /\ rows # <<>> /\ IsDir(PickDir(1))) =>
        /\ Len(rows[1].layercam3) = 3
        /\ \A k \in 1..3 :
              rows[1].layercam3[k]
                  = ExpectedSlot(<<LayercamName, BaseA>>, BaseA, LayercamName, k)

\* C1 witness: only a file of the third template exists, in a later extension,
\* and the slots are [absent, absent, that file].
C1_ThirdOnly ==
    /\ pipeline = 1
    /\ rows # <<>>
    /\ IsFile(Cand(PickDir(1), BaseA, LayercamName, 3, DotJpeg))
    /\ rows[1].layercam3
           = <<None, None, RefOf(<<LayercamName, BaseA>>, BaseA, LayercamName, 3, 3)>>

\* C2: pipeline 2 returns the first existing candidate, scanning the templates
\* cam, cam_gb, gb and within each the extensions .png, .jpg, .jpeg, .webp;
\* it is absent iff none of the twelve exists; and it is the first slot that
\* is not absent of the three-slot resolution of pipeline 1 over that directory.
C2_FirstCandidate ==
    (pipeline = 2 /\ rows # <<>>) =>
        LET sub == <<ResNetName, SECTIONS[1], LayercamName, BaseA>>
            single == rows[1].sections[1][2]
            three == pick_method_images(PickDir(2), BaseA, LayercamName)
            filled == {k \in 1..3 : three[k] # None}
        IN  /\ single = ExpectedSingle(sub, BaseA, LayercamName)
            /\ single = None <=>
                  \A k \in 1..3 : Present(sub, BaseA, LayercamName, k) = {}
            /\ single = IF filled = {} THEN None ELSE three[Least(filled)]

\* C2 witness: a file of the third template in .png and a file of the first in
\* .webp both exist, and the first template's file is returned.
C2_TemplateBeforeExtension ==
    /\ pipeline = 2
    /\ rows # <<>>
    /\ IsFile(Cand(PickDir(2), BaseA, LayercamName, 3, DotPng))
    /\ IsFile(Cand(PickDir(2), BaseA, LayercamName, 1, DotWebp))
    /\ rows[1].sections[1][2]
           = RefOf(<<ResNetName, SECTIONS[1], LayercamName, BaseA>>, BaseA, LayercamName, 1, 4)

\* C3: list_images returns exactly the regular files directly inside the
\* directory whose extension, compared case-insensitively, is png, jpg, jpeg
\* or webp and whose name does not start with "._", in ascending order of the
\* file names, each once; a directory that does not exist gives the empty list
\* and no error.
C3_Enumeration ==
    /\ pc \in {"rows", "write", "print", "done"} =>
          /\ {chinese_images[i] : i \in 1..Len(chinese_images)} = Eligible
          /\ \A i \in 1..(Len(chinese_images) - 1) :
                StrLess(chinese_images[i][Len(CHINESE_DIR) + 1],
                        chinese_images[i + 1][Len(CHINESE_DIR) + 1])
    /\ CHINESE_DIR \notin DOMAIN fs =>
          /\ failed_at # "list_images"
          /\ chinese_images = <<>>

\* C3 witness: an upper-case extension is listed before a lower-case one, and
\* an entry of the directory is left out.
C3_ListedAndLeftOut ==
    /\ pc = "rows"
    /\ Len(chinese_images) = 2
    /\ chinese_images[1] = Append(CHINESE_DIR, A_JPG)
    /\ \E p \in DOMAIN fs :
          Len(p) > Len(CHINESE_DIR) /\ SubSeq(p, 1, Len(CHINESE_DIR)) = CHINESE_DIR
          /\ p \notin Eligible

\* the three slots a row of pipeline 1 holds for a method
Slots3(row, method) ==
    IF method = LayercamName THEN row.layercam3
    ELSE IF method = HirescamName THEN row.hirescam3
    ELSE row.scorecam3

\* row i is the row of source image i: its path, its BaseKey, and every variant
\* looked up under the directory of that BaseKey with the templates of that BaseKey
RowOfSource(i) ==
    LET name == chinese_images[i][Len(CHINESE_DIR) + 1]
        base == BaseKey(name)
    IN  /\ rows[i].chinese = Join(<<ChineseName, name>>, "/")
        /\ rows[i].base = base
        /\ pipeline = 1 =>
              \A method \in {LayercamName, HirescamName, ScorecamName} :
                 LET dir == PROJECT_ROOT \o <<method, base>>
                 IN  Slots3(rows[i], method) =
                        IF dir \in DOMAIN fs /\ fs[dir] = "dir"
                        THEN [k \in 1..3 |-> ExpectedSlot(<<method, base>>, base, method, k)]
                        ELSE <<None, None, None>>
        /\ pipeline = 2 =>
              /\ Len(rows[i].sections) = 4
              /\ \A s \in 1..4 :
                    rows[i].sections[s] =
                       <<SECTIONS[s],
                         ExpectedSingle(<<ResNetName, SECTIONS[s], LayercamName, base>>,
                                        base, LayercamName),
                         ExpectedSingle(<<ResNetName, SECTIONS[s], ScorecamName, base>>,
                                        base, ScorecamName)>>

\* C4: build_rows gives exactly one row per enumerated source image, in the
\* order of the enumeration, none dropped or duplicated; a row carries the
\* path and the BaseKey of its source image, and its variants are looked up
\* with that BaseKey as directory and in the templates; a method whose
\* directory for the BaseKey is absent has all its slots absent.
C4_OneRowPerSource ==
    /\ pc \in {"rows", "write", "print", "done"} =>
          /\ Len(rows) = src_idx - 1
          /\ \A i \in 1..Len(rows) : RowOfSource(i)
    /\ Rendered =>
          /\ Len(rows) = Len(chinese_images)
          /\ Len(rows) = Cardinality(Eligible)

\* C4 witness: a row whose LayerCAM directory holds a variant and whose
\* ScoreCAM and HiresCAM directories are absent.
C4_RowWithAbsentMethods ==
    /\ pipeline = 1
    /\ Rendered
    /\ Len(rows) = 1
    /\ rows[1].layercam3[1] # None
    /\ Append(SCORECAM_DIR, rows[1].base) \notin DOMAIN fs
    /\ Append(HIRESCAM_DIR, rows[1].base) \notin DOMAIN fs
    /\ rows[1].scorecam3 = <<None, None, None>>
    /\ rows[1].hirescam3 = <<None, None, None>>

\* the references of the images in a piece of a document, as a reader sees them
SrcRefs(piece) == [n \in 1..Len(SrcAttrs(piece)) |-> Unescape(SrcAttrs(piece)[n])]

\* the slot of a row of pipeline 1 that belongs under a header label
SlotUnder(row, label) ==
    CASE label = "LayerCAM 1" -> row.layercam3[1]
      [] label = "LayerCAM 2" -> row.layercam3[2]
      [] label = "LayerCAM 3" -> row.layercam3[3]
      [] label = "HiresCAM 1" -> row.hirescam3[1]
      [] label = "HiresCAM 2" -> row.hirescam3[2]
      [] label = "HiresCAM 3" -> row.hirescam3[3]
      [] label = "ScoreCAM 1" -> row.scorecam3[1]
      [] label = "ScoreCAM 2" -> row.scorecam3[2]
      [] label = "ScoreCAM 3" -> row.scorecam3[3]
      [] OTHER -> None

\* C5: in pipeline 1 every body row has exactly 10 cells, as many as the
\* header has columns; cell 1 is the source image, and the cell under the
\* header "<Method> k" (LayerCAM 1-3, HiresCAM 1-3, ScoreCAM 1-3) embeds slot k
\* of that method of the row when it is present and is the empty placeholder
\* when it is absent.
C5_TenCells ==
    (pipeline = 1 /\ Rendered) =>
        LET header == HeaderRows(html_str)
            labels == Segments(header[1], {TH}, TH_END)
            body == BodyRows(html_str)
        IN  /\ Len(header) = 1
            /\ labels = << <<"Source (Chinese)">>,
                           <<"LayerCAM 1">>, <<"LayerCAM 2">>, <<"LayerCAM 3">>,
                           <<"HiresCAM 1">>, <<"HiresCAM 2">>, <<"HiresCAM 3">>,
                           <<"ScoreCAM 1">>, <<"ScoreCAM 2">>, <<"ScoreCAM 3">> >>
            /\ Len(body) = Len(rows)
            /\ \A i \in 1..Len(body) :
                  LET cells == CellsOf(body[i])
                  IN  /\ Len(cells) = 10
                      /\ Len(cells) = Len(labels)
                      /\ SrcRefs(cells[1]) = <<rows[i].chinese>>
                      /\ \A n \in 2..10 :
                            IF SlotUnder(rows[i], labels[n][1]) # None
                            THEN SrcRefs(cells[n]) = <<SlotUnder(rows[i], labels[n][1])>>
                            ELSE cells[n] = <<TITLE_DIV, DIV_END>>

\* C5 witness: the only variant of the row is the LayerCAM _cam file; it is in
\* the cell under "LayerCAM 1" and the 8 other method cells are empty.
C5_OnlyLayerCam1 ==
    /\ pipeline = 1
    /\ Rendered
    /\ Len(rows) = 1
    /\ rows[1].base = BaseA
    /\ LET cells == CellsOf(BodyRows(html_str)[1])
       IN  /\ SrcRefs(cells[2])
                 = <<RefOf(<<LayercamName, BaseA>>, BaseA, LayercamName, 1, 2)>>
           /\ \A n \in 3..10 : cells[n] = <<TITLE_DIV, DIV_END>>

\* the number of columns the first header row spans
HeaderColumns(doc) ==
    Cardinality(Positions(HeaderRows(doc)[1], TH))
        + 2 * Cardinality(Positions(HeaderRows(doc)[1], TH2))

\* the header of pipeline 2 names the source column and then, for each of the
\* 4 sections in the order of SECTIONS, its label over a LayerCAM and a
\* ScoreCAM column: 9 columns
NineColumnHeader(doc) ==
    LET header == HeaderRows(doc)
    IN  /\ Len(header) = 2
        /\ header[1][1] = TH
        /\ Segments(header[1], {TH}, TH_END) = << <<"Source (Chinese)">> >>
        /\ [s \in 1..Len(Segments(header[1], {TH2}, TH_END)) |->
               Unescape(Segments(header[1], {TH2}, TH_END)[s])] = SECTIONS
        /\ Segments(header[2], {TH}, TH_END)
               = << <<>>, <<"LayerCAM">>, <<"ScoreCAM">>, <<"LayerCAM">>, <<"ScoreCAM">>,
                    <<"LayerCAM">>, <<"ScoreCAM">>, <<"LayerCAM">>, <<"ScoreCAM">> >>
        /\ HeaderColumns(doc) = 9

\* a cell of pipeline 2 shows the image p of a section and a method, or is empty
CellShows(cell, row, section, p, label) ==
    IF p # None
    THEN /\ SrcRefs(cell) = <<p>>
         /\ Len(AltAttrs(cell)) = 1
         /\ LET alt == AltAttrs(cell)[1]
            IN  /\ alt[Len(alt)] = label
                /\ Unescape(SubSeq(alt, 1, Len(alt) - 1)) = row.base \o <<" ">> \o section
    ELSE cell = <<>>

\* every body row of pipeline 2 has exactly 9 cells: the source, then the
\* LayerCAM and the ScoreCAM cell of each section in the order of SECTIONS
NineCellRows(doc) ==
    /\ Len(BodyRows(doc)) = Len(rows)
    /\ \A i \in 1..Len(BodyRows(doc)) :
          LET cells == CellsOf(BodyRows(doc)[i])
          IN  /\ Len(cells) = 9
              /\ SrcRefs(cells[1]) = <<rows[i].chinese>>
              /\ \A s \in 1..4 :
                    /\ rows[i].sections[s][1] = SECTIONS[s]
                    /\ CellShows(cells[2 * s], rows[i], SECTIONS[s],
                                 rows[i].sections[s][2], " LayerCAM")
                    /\ CellShows(cells[2 * s + 1], rows[i], SECTIONS[s],
                                 rows[i].sections[s][3], " ScoreCAM")

\* C6, as claimed: in pipeline 2, for every list of rows, the empty list
\* included, the header names the 9 columns and every body row has 9 cells.
C6_HeaderAlwaysNamesNine ==
    (pipeline = 2 /\ Rendered) =>
        NineColumnHeader(html_str) /\ NineCellRows(html_str)

\* C6, amended: in pipeline 2, for every non-empty list of rows the header
\* names the 9 columns and every body row has 9 cells in that order; for the
\* empty list the header names the source column only, its second row is one
\* empty cell, and the body has no row.
C6_HeaderNamesNineWhenRows ==
    (pipeline = 2 /\ Rendered) =>
        /\ rows # <<>> => NineColumnHeader(html_str)
        /\ NineCellRows(html_str)
        /\ rows = <<>> =>
              /\ Len(HeaderRows(html_str)) = 2
              /\ HeaderRows(html_str)[1] = <<TH, "Source (Chinese)", TH_END>>
              /\ HeaderRows(html_str)[2] = <<TH, TH_END>>
              /\ BodyRows(html_str) = <<>>

\* C6 witness: a row of pipeline 2 with an image in the first section and an
\* empty cell beside it, under the 9-column header.
C6_RowUnderNineColumns ==
    /\ pipeline = 2
    /\ Rendered
    /\ Len(rows) = 1
    /\ rows[1].sections[1][2] # None
    /\ rows[1].sections[1][3] = None
    /\ HeaderColumns(html_str) = 9

\* C7, as claimed: every image reference of the written document is a relative
\* path that resolves, from the directory of the document, to a regular file.
C7_ReferencesAreFiles ==
    pc \in {"print", "done"} =>
        \A n \in 1..Len(SrcRefs(disk)) :
            LET ref == SrcRefs(disk)[n]
                target == Parent(OutPath) \o SplitRef(ref)
            IN  /\ ref # <<>>
                /\ ref[1] # "/"
                /\ target \in DOMAIN fs
                /\ fs[target] = "file"

\* a token that is markup to a reader of the document: a chunk of a template,
\* or a character that opens or closes a tag or an attribute value
IsMarkup(t) == t \notin Chars \/ t \in {"<", ">", "\"", "'"}

\* the markup of a document: its rows, cells and attributes without their text
Structure(doc) == SelectSeq(doc, IsMarkup)

\* no character of the embedded text is a raw "<", ">", double or single quote,
\* and every "&" starts one of the character references
NoRawSpecials(doc) ==
    \A i \in 1..Len(doc) :
        /\ doc[i] \notin {"<", ">", "\"", "'"}
        /\ doc[i] = "&" =>
              \E e \in Entities : StartsWith(SubSeq(doc, i + 1, Len(doc)), e.body)

\* the rows with every BaseKey and every path replaced by a text without
\* special characters
Plain(p) == IF p # None THEN <<"x">> ELSE None
PlainRows(rs) ==
    [i \in 1..Len(rs) |->
        IF pipeline = 1
        THEN [base      |-> <<"x">>,
              chinese   |-> <<"x">>,
              layercam3 |-> [k \in 1..3 |-> Plain(rs[i].layercam3[k])],
              hirescam3 |-> [k \in 1..3 |-> Plain(rs[i].hirescam3[k])],
              scorecam3 |-> [k \in 1..3 |-> Plain(rs[i].scorecam3[k])]]
        ELSE [base     |-> <<"x">>,
              chinese  |-> <<"x">>,
              sections |-> [s \in 1..Len(rs[i].sections) |->
                               <<rs[i].sections[s][1],
                                 Plain(rs[i].sections[s][2]),
                                 Plain(rs[i].sections[s][3])>>]]]

\* C8: every BaseKey, section name and path is embedded escaped: the document
\* holds no raw "<", ">", "&", double or single quote inside embedded text,
\* and its rows, cells and attributes are those of the document rendered for
\* BaseKeys and paths without special characters.
C8_Escaped ==
    Rendered =>
        /\ NoRawSpecials(html_str)
        /\ Structure(html_str) = Structure(render_html(pipeline, PlainRows(rows)))

\* C8 witness: a row whose BaseKey is made of the five special characters,
\* with a variant image, has been rendered.
C8_SpecialBaseKeyRendered ==
    /\ Rendered
    /\ \E i \in 1..Len(rows) :
          /\ rows[i].base = BaseQ
          /\ IF pipeline = 1 THEN rows[i].layercam3[1] # None
             ELSE rows[i].sections[2][2] # None

\* C9, as claimed: when a run fails, nothing is printed and the output path is
\* as it was before the run.
C9_FailureLeavesOutput ==
    pc = "failed" => (stdout = <<>> /\ OutputNow = before)

\* C10: the runs of the generator on an unchanged set of source and variant
\* files write the same document, whatever the order in which the directory
\* is iterated and whether or not a document of an earlier run is at the
\* output path; the document replaces what the file held.
C10_SameDocument ==
    /\ \A i, j \in 1..Len(written) : written[i] = written[j]
    /\ pc \in {"print", "done"} =>
          /\ OutputNow = [kind |-> "file", text |-> html_str]
          /\ written[Len(written)] = html_str

\* C10 witness: the second run, over two source images and with the document
\* of the first run at the output path, has written its document.
C10_SecondRunWrote ==
    /\ run = 2
    /\ pc = "done"
    /\ Len(rows) = 2
    /\ before = [kind |-> "file", text |-> written[1]]
    /\ Len(written) = 2

====
